---- MODULE Spec2Model ----
(***************************************************************************)
(* A model of hyper's server core (src/server/mod.rs): the accept loop     *)
(* spawned by Server::handle, the per-connection pipelined dispatch bound  *)
(* by HttpServer / HttpService, the message adapter of HttpService::call   *)
(* and map_response_to_message, and the shutdown pair Listening /          *)
(* ServerLoop returned by Server::standalone.                              *)
(***************************************************************************)
EXTENDS Integers, Sequences, FiniteSets, TLC

\* Bounds of the model.
MaxConns == 2       \* connection attempts that reach the listener
MaxReqs == 2        \* requests received, over all connections
MaxChunks == 2      \* chunks in one body stream
MaxDuration == 2    \* the idle timeouts a caller sets, in seconds
MaxSockets == 2     \* the socket limits a caller sets
MaxIdle == 2        \* seconds a connection is watched staying idle

Heads == {"h1", "h2"}
Chunks == {"a", "b"}
Terms == {"eof", "error"}
ConnIds == 1..MaxConns

Ok(x) == [ok |-> TRUE, val |-> x]
Err == [ok |-> FALSE]
None == [some |-> FALSE]
Some(x) == [val |-> x, some |-> TRUE]

(***************************************************************************)
(* Bodies and messages.  A body stream is modelled by what it yields: its  *)
(* chunks in order and how it terminates.                                  *)
(***************************************************************************)
ChunkSeqs == UNION {[1..n -> Chunks] : n \in 0..MaxChunks}
TokioBodies == [ty : {"TokioBody"}, chunks : ChunkSeqs, term : Terms]
Bodies == [ty : {"Body"}, chunks : ChunkSeqs, term : Terms]

WithoutBody(h) == [kind |-> "WithoutBody", head |-> h]
WithBody(h, b) == [kind |-> "WithBody", head |-> h, body |-> b]
Messages ==
    {WithoutBody(h) : h \in Heads}
        \cup {WithBody(h, b) : h \in Heads, b \in TokioBodies}

\* Body::empty(): a stream that is already terminated, without a chunk.
BodyEmpty == [ty |-> "Body", chunks |-> <<>>, term |-> "eof"]
\* From<TokioBody> for Body and From<Body> for TokioBody: re-wrap the stream.
BodyFromTokio(tb) == [ty |-> "Body", chunks |-> tb.chunks, term |-> tb.term]
TokioFromBody(b) == [ty |-> "TokioBody", chunks |-> b.chunks, term |-> b.term]
BodyIsEmpty(b) == Len(b.chunks) = 0

\* request::new(head, body)
RequestNew(h, b) == [head |-> h, body |-> b]
\* A Response always carries a body handle.
Responses == [head : Heads, body : Bodies]
\* response::split(res): the head, and the body unless it is empty.
ResponseSplit(res) ==
    <<res.head, IF BodyIsEmpty(res.body) THEN None ELSE Some(res.body)>>

(***************************************************************************)
(* The adapter: HttpService::call and map_response_to_message.             *)
(***************************************************************************)
MapResponseAlwaysWithBody(res) ==
    WithBody(res.head, TokioFromBody(res.body))

MapResponseHeadOnly(res) == WithoutBody(res.head)

MapResponseToMessage(res) ==
    LET sp == ResponseSplit(res)
        head == sp[1]
        body == sp[2]
    IN  IF body.some
        THEN WithBody(head, TokioFromBody(body.val))
        ELSE WithoutBody(head)

DefaultHead == "h1"

DecodeDefaultHead(m) ==
    IF m.kind = "WithoutBody"
    THEN RequestNew(DefaultHead, BodyEmpty)
    ELSE RequestNew(m.head, BodyFromTokio(m.body))

DecodeDropsBody(m) ==
    RequestNew(m.head, BodyEmpty)

\* The match of HttpService::call and request::new on its result.
Decode(m) ==
    IF m.kind = "WithoutBody"
    THEN RequestNew(m.head, BodyEmpty)
    ELSE RequestNew(m.head, BodyFromTokio(m.body))

FallbackHead == "h500"

CallResultFallback(o) ==
    IF o.ok
    THEN Ok(MapResponseToMessage(o.val))
    ELSE Ok(WithoutBody(FallbackHead))

\* self.inner.call(req).map(map_response_to_message): the handler's
\* response is encoded, its failure passes through unchanged.
CallResult(o) ==
    IF o.ok
    THEN Ok(MapResponseToMessage(o.val))
    ELSE o

\* A handler that answers with the request's head and body.
Echo(req) == [head |-> req.head, body |-> req.body]

\* What the Transport delivers and what handlers answer in the server model:
\* the dispatch does not look into the messages, whose every form is the
\* matter of AdapterSpec.
WireMessages ==
    {WithBody("h2", [ty |-> "TokioBody", chunks |-> <<"a", "b">>, term |-> "eof"])}
HandlerOutcomes(req) == {Ok(Echo(req)), Err}
AcceptOutcomes == {"ok", "io_error", "factory_error"}

VARIABLES
    server,         \* "configured" | "standalone" | the error standalone returned
    listening,      \* the Listening handle: "none" | "alive" | "closed" | "dropped"
    chan,           \* the shutdown channel: [sent, senderAlive]
    serverLoop,     \* the ServerLoop value: [pc, inner, drives]
    core,           \* the Core: "none" | "idle" | "driving" | "dropped"
    drivesDone,     \* drives of the Core that have returned
    earlySignal,    \* the receiver was already resolved when the drive started
    acceptTask,     \* the spawned for_each: "none" | "running" | "failed" | "abandoned"
    attempts,       \* connection attempts that reached the listener
    acceptErrors,   \* errors logged by the accept task
    conns,          \* per connection: the task bound by bind_server
    openAtClose,    \* the connections whose task was running when close() was called
    config,         \* the Server value: [addr, keep_alive, idle_timeout, max_sockets]
    builder,        \* the address given to http and the last value given to each setter
    factoryCalls,   \* calls of factory.new_service()
    adapter         \* one traced call of the adapter: [pc, message, request, echo, outcome, future]

sysvars == <<server, listening, chan, serverLoop, core, drivesDone, earlySignal,
             acceptTask, attempts, acceptErrors, conns, openAtClose, config,
             builder, factoryCalls>>
vars == <<sysvars, adapter, config, builder,
                   factoryCalls>>

NoConn ==
    [state |-> "none", cause |-> "none", recv |-> 0, inflight |-> <<>>,
     written |-> <<>>, failed |-> {}, ooo |-> FALSE, handler |-> 0,
     idleFor |-> 0]

AdapterIdle == [pc |-> "idle"]

Addrs == {"addr1", "addr2"}
IdleTimeoutDefault == 10
MaxSocketsDefault == 4096

\* Server::http(addr)
http(a) ==
    [addr |-> a, keep_alive |-> TRUE, idle_timeout |-> Some(IdleTimeoutDefault),
     max_sockets |-> MaxSocketsDefault]

InitWith(a) ==
    /\ config = http(a)
    /\ builder = [addr |-> a, keep_alive |-> None, idle_timeout |-> None,
                  max_sockets |-> None]
    /\ factoryCalls = 0
    /\ server = "configured"
    /\ listening = "none"
    /\ chan = [sent |-> FALSE, senderAlive |-> FALSE]
    /\ serverLoop = [pc |-> "none", inner |-> "None", drives |-> 0]
    /\ core = "none"
    /\ drivesDone = 0
    /\ earlySignal = FALSE
    /\ acceptTask = "none"
    /\ attempts = 0
    /\ acceptErrors = 0
    /\ conns = [c \in ConnIds |-> NoConn]
    /\ openAtClose = {}
    /\ adapter = AdapterIdle

Init == InitWith("addr1")

(***************************************************************************)
(* The builder setters of Server.                                          *)
(***************************************************************************)
keep_alive_sets_all(self, val) ==
    [self EXCEPT !.keep_alive = val,
                 !.idle_timeout = IF val THEN @ ELSE None]

keep_alive(self, val) == [self EXCEPT !.keep_alive = val]
idle_timeout(self, val) == [self EXCEPT !.idle_timeout = val]
max_sockets(self, val) == [self EXCEPT !.max_sockets = val]

KeepAlive(val) ==
    /\ server = "configured"
    /\ config' = keep_alive(config, val)
    /\ builder' = [builder EXCEPT !.keep_alive = Some(val)]
    /\ UNCHANGED <<server, listening, chan, serverLoop, core, drivesDone,
                   earlySignal, acceptTask, attempts, acceptErrors, conns,
                   openAtClose, factoryCalls, adapter>>

IdleTimeout(val) ==
    /\ server = "configured"
    /\ config' = idle_timeout(config, val)
    /\ builder' = [builder EXCEPT !.idle_timeout = Some(val)]
    /\ UNCHANGED <<server, listening, chan, serverLoop, core, drivesDone,
                   earlySignal, acceptTask, attempts, acceptErrors, conns,
                   openAtClose, factoryCalls, adapter>>

MaxSocketsSet(val) ==
    /\ server = "configured"
    /\ config' = max_sockets(config, val)
    /\ builder' = [builder EXCEPT !.max_sockets = Some(val)]
    /\ UNCHANGED <<server, listening, chan, serverLoop, core, drivesDone,
                   earlySignal, acceptTask, attempts, acceptErrors, conns,
                   openAtClose, factoryCalls, adapter>>

IdleTimeouts == {None} \cup {Some(d) : d \in 0..MaxDuration}
SocketLimits == 0..MaxSockets

ConfigNext ==
    \/ \E val \in BOOLEAN : KeepAlive(val)
    \/ \E val \in IdleTimeouts : IdleTimeout(val)
    \/ \E val \in SocketLimits : MaxSocketsSet(val)

ConfigInit == \E a \in Addrs : InitWith(a)

ConfigSpec == ConfigInit /\ [][ConfigNext]_vars

(***************************************************************************)
(* Server::standalone: a Core, the accept task spawned on it by            *)
(* Server::handle, and the (Listening, ServerLoop) pair around a channel.  *)
(***************************************************************************)
StandaloneOutcomes == {"ok", "core_error", "bind_error", "channel_error"}

HandleSpawnsBeforeBind(outcome) ==
    CASE outcome = "ok" -> "running"
      [] outcome \in {"bind_error", "channel_error"} -> "abandoned"
      [] OTHER -> "none"

\* Server::handle, as called by standalone: the three try! of the bind
\* return before handle.spawn; a task spawned on a Core that standalone
\* then drops (the channel failed) is dropped with it, never polled.
HandleSpawns(outcome) ==
    CASE outcome = "ok" -> "running"
      [] outcome = "channel_error" -> "abandoned"
      [] OTHER -> "none"

Standalone(outcome) ==
    /\ server = "configured"
    /\ acceptTask' = HandleSpawns(outcome)
    /\ IF outcome = "ok"
       THEN /\ server' = "standalone"
            /\ listening' = "alive"
            /\ chan' = [sent |-> FALSE, senderAlive |-> TRUE]
            /\ serverLoop' = [pc |-> "held", inner |-> "Some", drives |-> 0]
            /\ core' = "idle"
       ELSE /\ server' = outcome
            /\ core' = IF outcome = "core_error" THEN core ELSE "dropped"
            /\ UNCHANGED <<listening, chan, serverLoop>>
    /\ UNCHANGED <<drivesDone, earlySignal, attempts, acceptErrors, conns,
                   openAtClose, adapter, config, builder,
                   factoryCalls>>

(***************************************************************************)
(* Listening::close and the drop of an unclosed Listening.                 *)
(***************************************************************************)
\* self.shutdown.send(()), then self (and its Sender) goes out of scope.
SendShutdown(ch) == [sent |-> TRUE, senderAlive |-> FALSE]
DropSender(ch) == [ch EXCEPT !.senderAlive = FALSE]

OpenConns == {c \in ConnIds : conns[c].state = "open"}

Close ==
    /\ listening = "alive"
    /\ listening' = "closed"
    /\ chan' = SendShutdown(chan)
    /\ openAtClose' = IF core = "driving" THEN OpenConns ELSE {}
    /\ UNCHANGED <<server, serverLoop, core, drivesDone, earlySignal, acceptTask,
                   attempts, acceptErrors, conns, adapter, config, builder,
                   factoryCalls>>

DropListening ==
    /\ listening = "alive"
    /\ listening' = "dropped"
    /\ chan' = DropSender(chan)
    /\ UNCHANGED <<server, serverLoop, core, drivesDone, earlySignal, acceptTask,
                   attempts, acceptErrors, conns, openAtClose, adapter, config, builder,
                   factoryCalls>>

(***************************************************************************)
(* ServerLoop::run and Drop for ServerLoop.                                *)
(***************************************************************************)
ResolvedAlways(ch) == TRUE
ResolvedOnSignalOnly(ch) == ch.sent

\* work.into_future(): the receiver yields the signal, or ends because the
\* Sender is gone.
Resolved(ch) == ch.sent \/ ~ch.senderAlive

RunBodyDrives(sl) == [sl EXCEPT !.drives = @ + 1]

\* The body of run(self): empty, "drop will take care of it".
RunBody(sl) == sl

\* self.inner.take().map(|(loop_, work)| loop_.run(work.into_future())),
\* up to the point where the Core starts to run.
DropBegin(sl) ==
    IF sl.inner = "Some"
    THEN [sl EXCEPT !.inner = "None", !.drives = @ + 1, !.pc = "dropping"]
    ELSE [sl EXCEPT !.pc = "gone"]

StartDrop(sl) ==
    /\ serverLoop' = DropBegin(sl)
    /\ core' = IF serverLoop'.pc = "dropping" THEN "driving" ELSE core
    /\ earlySignal' = (serverLoop'.pc = "dropping" /\ Resolved(chan))
    /\ UNCHANGED <<server, listening, chan, drivesDone, acceptTask, attempts,
                   acceptErrors, conns, openAtClose, adapter, config, builder,
                   factoryCalls>>

Run ==
    /\ serverLoop.pc = "held"
    /\ StartDrop(RunBody(serverLoop))

Discard ==
    /\ serverLoop.pc = "held"
    /\ StartDrop(serverLoop)

AbandonNothing(cs) == cs

\* The Core is dropped when the closure of Drop returns: every task still
\* registered on it is dropped with it.
AbandonTasks(cs) ==
    [c \in ConnIds |->
        IF cs[c].state = "open"
        THEN [cs[c] EXCEPT !.state = "abandoned", !.cause = "core_dropped"]
        ELSE cs[c]]

DriveFinish ==
    /\ core = "driving"
    /\ Resolved(chan)
    /\ drivesDone' = drivesDone + 1
    /\ core' = "dropped"
    /\ serverLoop' = [serverLoop EXCEPT !.pc = "gone"]
    /\ acceptTask' = IF acceptTask = "running" THEN "abandoned" ELSE acceptTask
    /\ conns' = AbandonTasks(conns)
    /\ UNCHANGED <<server, listening, chan, earlySignal, attempts, acceptErrors,
                   openAtClose, adapter, config, builder,
                   factoryCalls>>

(***************************************************************************)
(* The accept task of Server::handle:                                      *)
(*   listener.incoming().for_each(|(socket, _)| { new_service; bind })     *)
(*       .map_err(|e| error!(..))                                          *)
(***************************************************************************)
DrivenOrIdle == core \in {"idle", "driving"}

\* Tasks spawned on the Core are polled only inside loop_.run.
Driven == core = "driving"

\* for_each resolves with the first error of the stream or of its closure;
\* map_err logs it and the spawned future is complete.
AcceptTaskAfter(how) == IF how = "ok" THEN "running" ELSE "failed"

SharedService(calls) == 1

\* factory.new_service(): the instance made by this call, numbered by the
\* calls made so far.
NewService(calls) == calls + 1

\* binder.bind_server(&inner_handle, socket, service)
BindServer(cn, svc) == [cn EXCEPT !.state = "open", !.handler = svc]

OnAcceptBindsAnyway(cn, how, svc) ==
    CASE how = "ok" -> BindServer(cn, svc)
      [] how = "factory_error" ->
            [BindServer(cn, svc) EXCEPT !.cause = "factory_error"]
      [] OTHER -> cn

\* The closure of for_each on one item of incoming(): try!(new_service())
\* returns before bind_server, and an error of the stream never reaches
\* the closure.
OnAccept(cn, how, svc) ==
    CASE how = "ok" -> BindServer(cn, svc)
      [] how = "factory_error" ->
            [cn EXCEPT !.state = "refused", !.cause = "factory_error"]
      [] OTHER -> cn

Accept(how) ==
    /\ Driven
    /\ acceptTask = "running"
    /\ attempts < MaxConns
    /\ attempts' = attempts + 1
    /\ acceptTask' = AcceptTaskAfter(how)
    /\ acceptErrors' = IF how = "ok" THEN acceptErrors ELSE acceptErrors + 1
    /\ factoryCalls' = IF how = "io_error" THEN factoryCalls ELSE factoryCalls + 1
    /\ conns' =
        [conns EXCEPT ![attempts + 1] = OnAccept(@, how, NewService(factoryCalls))]
    /\ UNCHANGED <<server, listening, chan, serverLoop, core, drivesDone,
                   earlySignal, openAtClose, adapter, config, builder>>

(***************************************************************************)
(* One connection's task: the pipelined dispatch that bind_server sets up  *)
(* for HttpServer (streaming::pipeline::ServerProto) around HttpService.   *)
(***************************************************************************)
RECURSIVE SumRecv(_)
SumRecv(n) == IF n = 0 THEN 0 ELSE conns[n].recv + SumRecv(n - 1)
\* Requests received so far, over all connections.
TotalRecv == SumRecv(MaxConns)

Running(c) == Driven /\ conns[c].state = "open"

RemoveAt(q, i) == [j \in 1..(Len(q) - 1) |-> IF j < i THEN q[j] ELSE q[j + 1]]

NextToWriteAnyDone(q) == {i \in 1..Len(q) : q[i].done}

\* The pipeline dispatcher hands the Transport the response of the oldest
\* request in flight, once it is there.
NextToWrite(q) == IF Len(q) > 0 /\ q[1].done THEN {1} ELSE {}

\* The Transport yields the next request message and HttpService::call
\* decodes it and calls the handler.
Receive(c, m) ==
    /\ Running(c)
    /\ TotalRecv < MaxReqs
    /\ conns' = [conns EXCEPT ![c] =
            [@ EXCEPT !.recv = @ + 1,
                      !.idleFor = 0,
                      !.inflight = Append(@,
                          [req |-> Decode(m), done |-> FALSE,
                           id |-> conns[c].recv + 1, result |-> Err])]]
    /\ UNCHANGED <<server, listening, chan, serverLoop, core, drivesDone,
                   earlySignal, acceptTask, attempts, acceptErrors, openAtClose,
                   adapter, config, builder,
                   factoryCalls>>

\* The handler's future of request i in flight resolves; the future that
\* call returned resolves with it.
HandlerResolve(c, i, o) ==
    /\ Running(c)
    /\ i \in 1..Len(conns[c].inflight)
    /\ ~conns[c].inflight[i].done
    /\ o \in HandlerOutcomes(conns[c].inflight[i].req)
    /\ conns' = [conns EXCEPT ![c] =
            [@ EXCEPT !.inflight[i].done = TRUE,
                      !.inflight[i].result = CallResult(o),
                      !.failed = IF o.ok THEN @
                                 ELSE @ \cup {conns[c].inflight[i].id},
                      !.ooo = @ \/ (i > 1 /\ ~conns[c].inflight[1].done)]]
    /\ UNCHANGED <<server, listening, chan, serverLoop, core, drivesDone,
                   earlySignal, acceptTask, attempts, acceptErrors, openAtClose,
                   adapter, config, builder,
                   factoryCalls>>

EndTaskEndsAll(cs, c, cn) ==
    [d \in ConnIds |->
        IF d = c THEN cn
        ELSE IF cs[d].state = "open"
             THEN [cs[d] EXCEPT !.state = "failed", !.cause = "peer_task"]
             ELSE cs[d]]

\* Every connection is its own task on the Core: the task of connection c
\* completes as cn, the other tasks are not touched.
EndTask(cs, c, cn) == [cs EXCEPT ![c] = cn]

\* A failed call ends the connection's task; nothing is written for it.
OnCallError(cn) ==
    [cn EXCEPT !.state = "failed", !.cause = "handler_error", !.inflight = <<>>]

\* The dispatcher takes a resolved call: its message goes to the Transport.
Write(c, i) ==
    /\ Running(c)
    /\ i \in NextToWrite(conns[c].inflight)
    /\ LET e == conns[c].inflight[i]
       IN  conns' =
                IF e.result.ok
                THEN [conns EXCEPT ![c] =
                        [@ EXCEPT !.inflight = RemoveAt(@, i),
                                  !.idleFor = 0,
                                  !.written = Append(@,
                                      [id |-> e.id, msg |-> e.result.val])]]
                ELSE EndTask(conns, c, OnCallError(conns[c]))
    /\ UNCHANGED <<server, listening, chan, serverLoop, core, drivesDone,
                   earlySignal, acceptTask, attempts, acceptErrors, openAtClose,
                   adapter, config, builder,
                   factoryCalls>>

\* The peer closes the connection, or the Transport fails.
ConnEnd(c, cause) ==
    /\ Running(c)
    /\ conns' = EndTask(conns, c,
            [conns[c] EXCEPT
                !.state = IF cause = "peer_close" THEN "closed" ELSE "failed",
                !.cause = cause,
                !.inflight = <<>>])
    /\ UNCHANGED <<server, listening, chan, serverLoop, core, drivesDone,
                   earlySignal, acceptTask, attempts, acceptErrors, openAtClose,
                   adapter, config, builder,
                   factoryCalls>>

Next ==
    \/ \E outcome \in StandaloneOutcomes : Standalone(outcome)
    \/ Close
    \/ DropListening
    \/ Run
    \/ Discard
    \/ DriveFinish
    \/ \E how \in AcceptOutcomes : Accept(how)
    \/ \E c \in ConnIds, m \in WireMessages : Receive(c, m)
    \/ \E c \in ConnIds, i \in 1..MaxReqs :
            \E o \in UNION {HandlerOutcomes(Decode(m)) : m \in WireMessages} :
                HandlerResolve(c, i, o)
    \/ \E c \in ConnIds, i \in 1..MaxReqs : Write(c, i)
    \/ \E c \in ConnIds, cause \in {"peer_close", "transport_error"} : ConnEnd(c, cause)

Spec == Init /\ [][Next]_vars

\* Core::run polls the shutdown future whenever it is woken: a resolved
\* receiver ends the drive.
FairSpec == Spec /\ WF_vars(DriveFinish)

(***************************************************************************)
(* A server configured through its setters before it is started, and the   *)
(* time that passes on its connections.                                    *)
(***************************************************************************)
\* One second passes on a connection with no request in flight: nothing is
\* read and nothing is written.  Nothing in handle arms a timer.
Tick(c) ==
    /\ Running(c)
    /\ conns[c].inflight = <<>>
    /\ conns[c].idleFor < MaxIdle
    /\ conns' = [conns EXCEPT ![c] = [@ EXCEPT !.idleFor = @ + 1]]
    /\ UNCHANGED <<server, listening, chan, serverLoop, core, drivesDone,
                   earlySignal, acceptTask, attempts, acceptErrors, openAtClose,
                   adapter, config, builder, factoryCalls>>

ServerNext ==
    \/ Next
    \/ KeepAlive(FALSE)
    \/ IdleTimeout(Some(1))
    \/ MaxSocketsSet(1)
    \/ \E c \in ConnIds : Tick(c)

ServerSpec == Init /\ [][ServerNext]_vars

(***************************************************************************)
(* One call of the adapter, over every message and every handler outcome.  *)
(***************************************************************************)
AdapterCall(m) ==
    /\ adapter.pc \in {"idle", "resolved"}
    /\ adapter' = [pc |-> "called", message |-> m, request |-> Decode(m)]
    /\ UNCHANGED sysvars

AdapterResolve(o, e) ==
    /\ adapter.pc = "called"
    /\ adapter' = [pc |-> "resolved", message |-> adapter.message,
                   request |-> adapter.request, echo |-> e,
                   outcome |-> o, future |-> CallResult(o)]
    /\ UNCHANGED sysvars

AdapterNext ==
    \/ \E m \in Messages : AdapterCall(m)
    \/ \E r \in Responses : AdapterResolve(Ok(r), FALSE)
    \/ AdapterResolve(Ok(Echo(adapter.request)), TRUE)
    \/ AdapterResolve(Err, FALSE)

AdapterSpec == Init /\ [][AdapterNext]_vars

(***************************************************************************)
(* Properties.                                                             *)
(***************************************************************************)
WrittenIds(c) == {conns[c].written[i].id : i \in DOMAIN conns[c].written}

\* C1: on one connection, the responses reach the Transport in the order in
\* which their requests were received, whatever the order in which the
\* handlers resolve: a response is never written before the response of an
\* earlier request of the same connection.  Nothing relates the writes of
\* two different connections.
C1_ResponsesInRequestOrder ==
    \A c \in ConnIds :
        LET w == conns[c].written
        IN  /\ \A i, j \in DOMAIN w : i < j => w[i].id < w[j].id
            /\ \A j \in DOMAIN w : \A a \in 1..(w[j].id - 1) :
                    \E i \in 1..(j - 1) : w[i].id = a

\* The second request's handler resolved while the first was pending, and
\* both responses have been written.
C1_Witness ==
    \E c \in ConnIds : conns[c].ooo /\ Len(conns[c].written) = 2

\* C2: while the Listening handle is alive (close() not called, handle not
\* dropped), a drive that was started, by run() or by a discard, has not
\* returned.
C2_DriveBlocksWhileListening ==
    (listening = "alive" /\ serverLoop.drives > 0)
        => (core = "driving" /\ drivesDone = 0 /\ serverLoop.pc = "dropping")

\* The drive is in progress and has served a request, the handle still alive.
C2_Witness ==
    /\ listening = "alive"
    /\ core = "driving"
    /\ \E c \in ConnIds : Len(conns[c].written) > 0

\* C3: once close() was called or the Listening handle was dropped, a drive
\* of the ServerLoop completes, with the same outcome for both causes,
\* whether the signal came before the drive started or during it.
C3_ShutdownEndsDrive ==
    (listening \in {"closed", "dropped"} /\ core = "driving")
        ~> (drivesDone = 1 /\ core = "dropped" /\ serverLoop.pc = "gone")

\* The handle was dropped without close() before the drive started, and the
\* drive has completed.
C3_Witness ==
    /\ listening = "dropped"
    /\ earlySignal
    /\ drivesDone = 1
    /\ core = "dropped"

\* C4: a ServerLoop is driven at most once, and once it is released, by
\* run() or by a discard, exactly one drive was started and has completed.
C4_ExactlyOneDrive ==
    /\ serverLoop.drives <= 1
    /\ drivesDone <= serverLoop.drives
    /\ serverLoop.pc = "gone" => (serverLoop.drives = 1 /\ drivesDone = 1)
    /\ serverLoop.pc = "dropping" => (serverLoop.drives = 1 /\ serverLoop.inner = "None")

\* close() was called before the ServerLoop was released, and the release
\* has performed its one drive.
C4_Witness ==
    /\ listening = "closed"
    /\ earlySignal
    /\ serverLoop.pc = "gone"
    /\ drivesDone = 1

\* C5: after an error while accepting a connection (an I/O error of the
\* listener, a failure of the handler factory), the accept loop still runs
\* as long as the Core is driven.
C5_AcceptLoopSurvivesErrors ==
    (acceptErrors > 0 /\ core = "driving") => acceptTask = "running"

\* C6, as stated: after close(), the accept loop is stopped once the drive
\* is over, and every connection task that was running at the time of
\* close() keeps running until it completes or fails by itself.
C6_RunningTasksSurviveClose ==
    listening = "closed" =>
        /\ core = "dropped" => acceptTask # "running"
        /\ \A c \in openAtClose : conns[c].state \in {"open", "closed", "failed"}

\* C6, amended: after close(), the connection tasks running at the time of
\* close() are not cancelled as long as the drive is in progress; once the
\* drive has returned, the accept loop is stopped and no connection task is
\* running any more: those that had not ended by themselves are abandoned.
C6_CloseAbandonsTasksAtDriveEnd ==
    listening = "closed" =>
        /\ core = "driving" => \A c \in openAtClose : conns[c].state # "abandoned"
        /\ core = "dropped" =>
            /\ acceptTask # "running"
            /\ \A c \in ConnIds : conns[c].state # "open"
            /\ \A c \in openAtClose :
                    conns[c].state \in {"closed", "failed", "abandoned"}

\* A connection with a request in flight at the time of close() was
\* abandoned when the drive returned.
C6_Witness ==
    /\ listening = "closed"
    /\ core = "dropped"
    /\ \E c \in openAtClose :
            conns[c].state = "abandoned" /\ Len(conns[c].inflight) > 0

\* C7: no message is written to the Transport for a request whose handler
\* failed, and the connection stays open only as long as the failure has not
\* reached the head of the pipeline: taking it ends the connection's task.
C7_HandlerFailureEndsConnection ==
    \A c \in ConnIds : \A k \in conns[c].failed :
        /\ k \notin WrittenIds(c)
        /\ \A a \in WrittenIds(c) : a < k
        /\ conns[c].state = "open" =>
                \E i \in DOMAIN conns[c].inflight :
                    /\ conns[c].inflight[i].id = k
                    /\ conns[c].inflight[i].done
                    /\ ~conns[c].inflight[i].result.ok

\* A connection answered its first request and was ended by the failure of
\* the handler of its second.
C7_Witness ==
    \E c \in ConnIds :
        /\ conns[c].state = "failed"
        /\ conns[c].cause = "handler_error"
        /\ conns[c].failed = {2}
        /\ WrittenIds(c) = {1}

\* C8: a Response with an empty body is encoded as a WithoutBody message
\* carrying the response's head.
C8_EmptyBodyEncodesHeadOnly ==
    (adapter.pc = "resolved" /\ adapter.outcome.ok
        /\ BodyIsEmpty(adapter.outcome.val.body))
        => adapter.future = Ok(WithoutBody(adapter.outcome.val.head))

\* The handler answered with head h2 and an empty body.
C8_Witness ==
    /\ adapter.pc = "resolved"
    /\ adapter.outcome.ok
    /\ BodyIsEmpty(adapter.outcome.val.body)
    /\ adapter.outcome.val.head = "h2"
    /\ adapter.future.val.kind = "WithoutBody"

\* C9: every Request handed to the handler carries a body, and for a
\* WithoutBody message it has the message's head and a body that ends at
\* once: no chunk, no error.
C9_HeadOnlyDecodesToEmptyBody ==
    adapter.pc \in {"called", "resolved"} =>
        /\ DOMAIN adapter.request = {"head", "body"}
        /\ adapter.request.body.ty = "Body"
        /\ adapter.message.kind = "WithoutBody" =>
            /\ adapter.request.head = adapter.message.head
            /\ adapter.request.body.chunks = <<>>
            /\ adapter.request.body.term = "eof"

\* A WithoutBody message with head h2 was decoded.
C9_Witness ==
    /\ adapter.pc = "called"
    /\ adapter.message = WithoutBody("h2")
    /\ adapter.request.head = "h2"

\* C10: with an echo handler, a WithBody message with at least one chunk
\* comes back as a WithBody message with the same head and the same chunks
\* in the same order.
C10_EchoRoundTrip ==
    (adapter.pc = "resolved" /\ adapter.echo /\ adapter.message.kind = "WithBody"
        /\ Len(adapter.message.body.chunks) > 0)
        => /\ adapter.future.ok
           /\ adapter.future.val.kind = "WithBody"
           /\ adapter.future.val.head = adapter.message.head
           /\ adapter.future.val.body.chunks = adapter.message.body.chunks
           /\ adapter.future.val.body.term = adapter.message.body.term

\* The echo of a body of two different chunks.
C10_Witness ==
    /\ adapter.pc = "resolved"
    /\ adapter.echo
    /\ adapter.message.kind = "WithBody"
    /\ adapter.message.body.chunks = <<"a", "b">>
    /\ adapter.future.val.body.chunks = <<"a", "b">>

\* C11: with keep_alive set to false, once a response has been written on a
\* connection no further request is dispatched on that connection.
C11_NoRequestAfterResponseWithoutKeepAlive ==
    [][~config.keep_alive =>
          \A c \in ConnIds :
              Len(conns[c].written) >= 1 => conns'[c].recv = conns[c].recv]_vars

\* C12: the connections open at the same time never exceed the configured
\* max_sockets.
C12_OpenConnectionsWithinMaxSockets ==
    Cardinality(OpenConns) <= config.max_sockets

\* C13: with an idle_timeout configured, no connection stays open and idle
\* for longer than the timeout.
C13_IdleConnectionClosedAfterTimeout ==
    config.idle_timeout.some =>
        \A c \in ConnIds :
            conns[c].state = "open" => conns[c].idleFor <= config.idle_timeout.val

\* C16: a new Server has keep_alive = true, idle_timeout = 10 seconds and
\* max_sockets = 4096, and after any sequence of setter calls each field
\* holds the last value given to its own setter, or its default when that
\* setter was never called; the address is the one given to http.
C16_SettersChangeOnlyOwnField ==
    /\ config.addr = builder.addr
    /\ config.keep_alive =
            IF builder.keep_alive.some THEN builder.keep_alive.val ELSE TRUE
    /\ config.idle_timeout =
            IF builder.idle_timeout.some THEN builder.idle_timeout.val
            ELSE Some(10)
    /\ config.max_sockets =
            IF builder.max_sockets.some THEN builder.max_sockets.val ELSE 4096

\* idle_timeout was set and keep_alive was set to false, max_sockets was
\* never set.
C16_Witness ==
    /\ builder.addr = "addr2"
    /\ builder.keep_alive = Some(FALSE)
    /\ builder.idle_timeout = Some(Some(1))
    /\ builder.max_sockets = None

\* C14: when binding or listening on the address fails, standalone returns
\* the error at once: no accept task is spawned, no connection is accepted,
\* the factory is not called, and no Listening / ServerLoop pair exists.
C14_BindFailureStartsNothing ==
    server = "bind_error" =>
        /\ acceptTask = "none"
        /\ listening = "none"
        /\ serverLoop.pc = "none"
        /\ serverLoop.inner = "None"
        /\ attempts = 0
        /\ factoryCalls = 0
        /\ \A c \in ConnIds : conns[c] = NoConn

\* standalone has returned the error of the bind, and the Core it had
\* created is gone.
C14_Witness ==
    /\ server = "bind_error"
    /\ core = "dropped"
    /\ builder.addr = config.addr

\* C15: the handler factory is called exactly once for each accepted
\* connection, and the instance it made serves that connection only: a
\* bound connection holds an instance, and no two connections hold the
\* same one.
C15_OneHandlerPerConnection ==
    /\ factoryCalls = Cardinality({c \in ConnIds : conns[c].state # "none"})
    /\ \A c \in ConnIds :
            conns[c].state \in {"open", "closed", "failed", "abandoned"}
                <=> conns[c].handler # 0
    /\ \A c, d \in ConnIds :
            (c # d /\ conns[c].handler # 0) => conns[c].handler # conns[d].handler

\* Two connections were accepted and each has had a request dispatched to
\* its own instance.
C15_Witness ==
    /\ factoryCalls = 2
    /\ \A c \in {1, 2} : conns[c].handler # 0 /\ conns[c].recv > 0

\* C18: when the task of one connection ends with a Transport error or a
\* handler failure, that step changes no other connection, and leaves the
\* accept task and the Core as they were.
C18_FailureEndsOnlyItsConnection ==
    [][\A c \in ConnIds :
          (conns[c].state = "open" /\ conns'[c].state = "failed")
              => /\ \A d \in ConnIds \ {c} : conns'[d] = conns[d]
                 /\ acceptTask' = acceptTask
                 /\ core' = core]_vars

\* One connection has failed and another one, still open, has had a
\* response written, the accept task running.
C18_Witness ==
    \E c, d \in ConnIds :
        /\ conns[c].state = "failed"
        /\ conns[c].cause \in {"handler_error", "transport_error"}
        /\ conns[d].state = "open"
        /\ Len(conns[d].written) > 0
        /\ acceptTask = "running"
        /\ core = "driving"

\* C19: in standalone mode nothing is accepted, no handler is called or
\* resolved and nothing is written in a step taken while the Core is not
\* driven, before the drive as after it; and when the drive has ended no
\* task is left running.
C19_TasksProgressOnlyWhileDriven ==
    [][/\ core # "driving" =>
            /\ attempts' = attempts
            /\ factoryCalls' = factoryCalls
            /\ conns' = conns
            /\ acceptTask' = acceptTask \/ server = "configured"
       /\ core' = "dropped" =>
            /\ acceptTask' # "running"
            /\ \A c \in ConnIds : conns'[c].state # "open"]_vars

\* The drive has ended with the accept task pending and a connection whose
\* request was still with the handler.
C19_Witness ==
    /\ core = "dropped"
    /\ drivesDone = 1
    /\ acceptTask = "abandoned"
    /\ \E c \in ConnIds :
            /\ conns[c].state = "abandoned"
            /\ Len(conns[c].inflight) > 0
            /\ ~conns[c].inflight[1].done

\* C20: a connection for which the factory failed is never bound: it has
\* no task, no handler instance, and no request is ever dispatched or
\* answered on it.
C20_FactoryFailureBindsNothing ==
    \A c \in ConnIds :
        conns[c].cause = "factory_error" =>
            /\ conns[c].state = "refused"
            /\ conns[c].handler = 0
            /\ conns[c].recv = 0
            /\ conns[c].inflight = <<>>
            /\ conns[c].written = <<>>

\* The factory failed for the second connection while the first one was
\* being served.
C20_Witness ==
    /\ conns[2].cause = "factory_error"
    /\ conns[1].recv > 0
    /\ core = "driving"

\* C17: a call whose handler succeeds resolves with one response message,
\* and when the response's body is not empty that message is WithBody, with
\* the response's head and a body stream that yields the response's chunks
\* in order and terminates as the response's body does.
C17_NonEmptyBodyEncodesHeadWithBody ==
    (adapter.pc = "resolved" /\ adapter.outcome.ok) =>
        /\ adapter.future.ok
        /\ adapter.future.val \in Messages
        /\ ~BodyIsEmpty(adapter.outcome.val.body) =>
            /\ adapter.future.val.kind = "WithBody"
            /\ adapter.future.val.head = adapter.outcome.val.head
            /\ adapter.future.val.body.ty = "TokioBody"
            /\ adapter.future.val.body.chunks = adapter.outcome.val.body.chunks
            /\ adapter.future.val.body.term = adapter.outcome.val.body.term

\* A request without a body was answered with head h2 and the two chunks
\* a, b.
C17_Witness ==
    /\ adapter.pc = "resolved"
    /\ adapter.message = WithoutBody("h1")
    /\ adapter.outcome = Ok([head |-> "h2",
                             body |-> [ty |-> "Body", chunks |-> <<"a", "b">>,
                                       term |-> "eof"]])
    /\ adapter.future.val.kind = "WithBody"

====
